---- MODULE Spec2Model ----
(***************************************************************************)
(* Model of the acode tree-sitter plugin: the grammar package store and    *)
(* installer (src/src/manager.js), the facade with its handle and parser   *)
(* caches (src/src/api.js) and the language handle (src/src/language.js).  *)
(*                                                                         *)
(* JavaScript runs one task at a time and a call only gives way at an      *)
(* await, so every action below is the code between two awaits of one      *)
(* call.  Calls live in the slots of Procs.  Spec lets the calls of all    *)
(* slots interleave at their awaits, up to MaxCalls calls; SpecSeq starts  *)
(* a call only when no other call is in flight, up to MaxSeqCalls calls.   *)
(*                                                                         *)
(* The variable obs describes the step just taken: which operation took   *)
(* it, whether it touched the store, the network or a cache, and, for the  *)
(* step that ends a call, what the call returned and emitted.  A call that *)
(* ends leaves its slot idle.                                              *)
(*                                                                         *)
(* Faults of the host are inputs of the actions: a directory creation, a   *)
(* manifest fetch, a file download, a store read and the deletion of an    *)
(* uninstall may each fail.  The deletion that rolls an install back is    *)
(* taken to succeed on a directory that exists.                            *)
(***************************************************************************)
EXTENDS Integers, Sequences, FiniteSets, TLC

\* Language objects constructed in one behaviour.
MaxHandles == 2
\* Parser objects constructed in one behaviour.
MaxParsers == 2
\* Grammars the engine loader compiles in one behaviour.
MaxLoads == 2
\* Files in a manifest of the wider registry.
MaxFiles == 3
\* Calls issued in one behaviour of SpecSeq, one after the other.
MaxSeqCalls == 8
\* Calls issued in one behaviour of Spec, where calls overlap.
MaxCalls == 3

Procs == {"c1", "c2"}
Ids == {"json"}

(***************************************************************************)
(* File names and paths.  A name is kept in the three parts the code looks *)
(* at: whether it starts with 'tree-sitter-', what follows, and the        *)
(* extension after the last dot.  A path is a sequence of names.           *)
(***************************************************************************)
Seg(p, b, e) == [pfx |-> p, base |-> b, ext |-> e]

ConfigName == Seg(FALSE, "tree-sitter", "json")
QueriesName == Seg(FALSE, "queries", "")
MainWasm(id) == Seg(TRUE, id, "wasm")
ExtWasm == Seg(TRUE, "dialect", "wasm")
ParserWasm == Seg(FALSE, "parser", "wasm")
Highlights == Seg(FALSE, "highlights", "scm")
Readme == Seg(FALSE, "README", "md")
SrcName == Seg(FALSE, "src", "")
PackageName == Seg(FALSE, "package", "")

\* The wanted items of installLanguage, in declaration order.
filesToDownload == << "tree-sitter.json", "*.wasm", "queries/" >>

\* pattern.endsWith('/')
isDirectory(pattern) == pattern = "queries/"

\* Mutant of minimatch: the pattern is matched against the base name of the
\* path, as the matchBase option does.
minimatch_matchBase(path, pattern) ==
    /\ Len(path) >= 1
    /\ IF pattern = "tree-sitter.json"
       THEN path[Len(path)] = ConfigName
       ELSE /\ pattern = "*.wasm"
            /\ path[Len(path)].ext = "wasm"
            /\ (path[Len(path)].pfx \/ path[Len(path)].base # "")

\* minimatch(path, pattern) for the two patterns the installer uses: an
\* exact name, and '*.wasm', whose star stays inside one path segment and
\* does not match a name that starts with a dot.
minimatch(path, pattern) ==
    /\ Len(path) = 1
    /\ IF pattern = "tree-sitter.json"
       THEN path[1] = ConfigName
       ELSE /\ pattern = "*.wasm"
            /\ path[1].ext = "wasm"
            /\ (path[1].pfx \/ path[1].base # "")

\* path.startsWith('queries/')
startsWithQueries(path) == Len(path) >= 2 /\ path[1] = QueriesName

\* Mutant of stripPrefix: the prefix is left on the path.
stripPrefix_keeps(path, prefix) == path

\* file.path.slice(globalMeta.prefix.length)
stripPrefix(path, prefix) == SubSeq(path, Len(prefix) + 1, Len(path))

\* globalMeta.files.filter(...) of _download for one wanted item.
matchingFiles(meta, pattern) ==
    LET keep(file) ==
          LET path == stripPrefix(file, meta.prefix)
          IN  IF isDirectory(pattern) THEN startsWithQueries(path)
              ELSE minimatch(path, pattern)
    IN  SelectSeq(meta.files, keep)

\* Url.basename(url)
basename(path) == path[Len(path)]

(***************************************************************************)
(* The registry.  A manifest is what GET <cdn>/tree-sitter-<id>@latest?meta*)
(* answers: the files (full paths), the prefix to strip and the version.   *)
(***************************************************************************)
Pre == << PackageName >>

Manifests(id) ==
    { [files |-> << Pre \o <<ConfigName>>, Pre \o <<MainWasm(id)>>,
                    Pre \o <<QueriesName, Highlights>> >>,
       prefix |-> Pre, version |-> 1],
      [files |-> << Pre \o <<MainWasm(id)>>, Pre \o <<Readme>> >>,
       prefix |-> Pre, version |-> 1],
      [files |-> << Pre \o <<SrcName, ParserWasm>>, Pre \o <<ConfigName>>,
                    Pre \o <<ExtWasm>> >>,
       prefix |-> Pre, version |-> 2] }

NoMeta == [files |-> << >>, prefix |-> << >>, version |-> 0]

\* The floating reference of buildUrl's default parameter,
\* version = 'latest'; the versions of the manifests are 1 and 2.
latest == 0

\* Mutant of buildUrl: the version argument is dropped and every URL names
\* the floating reference.
buildUrl_latest(lang, path, version) ==
    [package |-> lang, version |-> latest, path |-> path]

\* buildUrl(lang, path = '', version = 'latest'):
\* Url.join(this.CDN_URL, `tree-sitter-${lang}@${version}`, path)

buildUrl(lang, path, version) ==
    [package |-> lang, version |-> version, path |-> path]

\* A wider registry, for the installer on its own: prefix-stripped paths
\* that the wanted items match, and paths that come close to matching.
WidePaths(id) ==
    { << ConfigName >>,
      << MainWasm(id) >>,
      << Seg(FALSE, "", "wasm") >>,
      << SrcName, ParserWasm >>,
      << SrcName, ConfigName >>,
      << QueriesName, Highlights >>,
      << QueriesName, SrcName, Highlights >>,
      << Seg(FALSE, "queries", "scm") >>,
      << Readme >> }

\* Its manifests: up to MaxFiles of those paths, in any order.
WideManifests(id) ==
    UNION { { [files |-> [i \in 1..n |-> Pre \o fs[i]],
               prefix |-> Pre, version |-> 1] :
              fs \in { s \in [1..n -> WidePaths(id)] :
                          \A i, j \in 1..n : i # j => s[i] # s[j] } } :
            n \in 1..MaxFiles }

(***************************************************************************)
(* The store: one package directory per identifier under TREE_SITTER_PATH. *)
(***************************************************************************)
NoDir == [exists |-> FALSE, top |-> {}, qdir |-> FALSE, q |-> {}]
EmptyDir == [exists |-> TRUE, top |-> {}, qdir |-> FALSE, q |-> {}]

\* fs(folder).createFile(filename, content): folder is the package
\* directory, or its queries directory when inQueries.
createFile(d, inQueries, name) ==
    IF inQueries THEN [d EXCEPT !.q = @ \cup {name}]
    ELSE [d EXCEPT !.top = @ \cup {name}]

folderExists(d, inQueries) == d.exists /\ (inQueries => d.qdir)

\* What a finished install of manifest meta leaves in an empty directory.
RECURSIVE writeAll(_, _, _)
writeAll(d, files, inQueries) ==
    IF files = << >> THEN d
    ELSE writeAll(createFile(d, inQueries, basename(Head(files))),
                  Tail(files), inQueries)

installed(meta) ==
    LET d1 == writeAll(EmptyDir, matchingFiles(meta, filesToDownload[1]), FALSE)
        d2 == writeAll(d1, matchingFiles(meta, filesToDownload[2]), FALSE)
        d3 == [d2 EXCEPT !.qdir = TRUE]
    IN  writeAll(d3, matchingFiles(meta, filesToDownload[3]), TRUE)

(***************************************************************************)
(* The language handle (class Language, the variant that keeps the URLs of *)
(* the modules).                                                           *)
(***************************************************************************)
NoFile == Seg(FALSE, "", "")

\* Mutant of getNameFromFilename: the 'tree-sitter-' prefix is not removed.
getNameFromFilename_keepsPrefix(f) ==
    IF f.pfx THEN "tree-sitter-" \o f.base ELSE f.base

\* #getNameFromFilename: the name minus '.wasm' and minus a leading
\* 'tree-sitter-'.
getNameFromFilename(f) == f.base

\* Object.keys(wasmUrls) for the module files of a directory: the files in
\* the order lsDir listed them, which the host decides.
listings(files) ==
    { keys \in [1..Cardinality(files) -> files] :
         \A i, j \in 1..Cardinality(files) : i # j => keys[i] # keys[j] }

\* Object.keys(wasmUrls).find(filename => name of filename === this.#name):
\* the place of the first match in listing order, 0 when there is none.
mainFile(name, keys) ==
    LET found == { i \in 1..Len(keys) : getNameFromFilename(keys[i]) = name }
    IN  IF found = {} THEN 0
        ELSE CHOOSE i \in found : \A j \in found : i <= j

\* new Language(extName, config, wasmUrl, queries, true): #extensions is
\* null, so isExtension (!this.#extensions) is true.
Extension(f) ==
    [name |-> getNameFromFilename(f), wasmUrl |-> f, isExtension |-> TRUE]

\* for (const filename in wasmUrls) { if (filename === mainFile) continue;
\* this.#extensions[extName] = new Language(extName, ...) }: a later file
\* with the same derived name takes the place of an earlier one.
extensions(keys, main) ==
    LET others == (1..Len(keys)) \ {main}
        names == { getNameFromFilename(keys[i]) : i \in others }
        last(n) == CHOOSE i \in others :
                      /\ getNameFromFilename(keys[i]) = n
                      /\ \A j \in others :
                            getNameFromFilename(keys[j]) = n => j <= i
    IN  [n \in names |-> Extension(keys[last(n)])]

\* new Language(name, config, wasmUrls, queries, false), keys being the
\* file names of wasmUrls in order: the module slot holds the main module,
\* or stays the whole map when none was found; every other module becomes
\* an extension.  #extensions is an object, so isExtension is false.
\* #grammar is null (0); loads counts the grammars the engine loader has
\* compiled for the object, and a compiled grammar is known by its number;
\* rejected records that a load of the object has failed.
Language(name, keys) ==
    LET main == mainFile(name, keys) IN
    [name |-> name,
     resolved |-> main # 0,
     wasmUrl |-> IF main # 0 THEN keys[main] ELSE NoFile,
     extensions |-> extensions(keys, main),
     isExtension |-> FALSE,
     grammar |-> 0,
     loads |-> 0,
     rejected |-> FALSE]

\* files.filter(file => file.name.endsWith('.wasm')) of Manager.getLanguage
wasmFiles(d) == { f \in d.top : f.ext = "wasm" }

\* Mutant of Manager_getLanguage_outcome: a missing tree-sitter.json is read
\* as an empty configuration instead of being an error.
Manager_getLanguage_defaultsConfig(d, fault) ==
    IF ~d.exists THEN "absent"
    ELSE IF fault THEN "readerror"
    ELSE "ok"

\* How Manager.getLanguage ends on directory d: the directory is absent
\* (returns undefined), tree-sitter.json is not listed (throws), a read
\* fails (throws), or the handle is constructed.
Manager_getLanguage_outcome(d, fault) ==
    IF ~d.exists THEN "absent"
    ELSE IF fault THEN "readerror"
    ELSE IF ConfigName \notin d.top THEN "noconfig"
    ELSE "ok"

VARIABLES
    store,       \* [Ids -> directory]
    call,        \* [Procs -> the call in the slot]
    initState,   \* "engine", "config", "ok" or "failed"
    bootstraps,  \* how many times Parser.init was started
    initEvents,  \* events emitted by #initialize
    languages,   \* #languages: [Ids -> index in handles, 0 when absent]
    handles,     \* the Language objects constructed so far
    parser,      \* #parser: [Ids -> cached parser]
    nparsers,    \* Parser objects constructed so far
    completed,   \* [Ids -> manifest of the install that ran to completion
                 \* and was not uninstalled since, else NoMeta]
    uninstalled, \* [Ids -> "evicted" or "plain" once an uninstall deleted
                 \* the package and no install was called since, else ""]
    obs,         \* the step just taken
    sched        \* what the surroundings do.  seq: one call at a time;
                 \* budget: the calls that may still be issued; wide: the
                 \* registry serves the wider set of manifests

vars == << store, call, initState, bootstraps, initEvents, languages,
           handles, parser, nparsers, completed, uninstalled, obs, sched >>

NoParser == [n |-> 0, h |-> 0]

\* What GET <cdn>/tree-sitter-<id>@latest?meta may answer.
registry(id) == IF sched.wide THEN WideManifests(id) ELSE Manifests(id)

Idle == [op |-> "idle", pc |-> "idle", lang |-> "", net |-> 0,
         wrote |-> FALSE, meta |-> NoMeta, item |-> 0, queue |-> << >>,
         err |-> "", force |-> FALSE, had |-> 0, h |-> 0, urls |-> {}]

NoObs == [kind |-> "none", op |-> "", lang |-> "", touched |-> FALSE,
          ret |-> "", val |-> 0, ev |-> {}, net |-> 0, wrote |-> FALSE,
          pre |-> "", force |-> FALSE, had |-> 0, hadp |-> 0, rd |-> FALSE,
          h |-> 0, list |-> {}]

InFlight(p) == call[p].op # "idle"

settled == initState \in {"ok", "failed"}

Begin(o, id, first) == [Idle EXCEPT !.op = o, !.pc = first, !.lang = id]

\* A step of call c that does not end it; t: it touched store, network or
\* a cache.
stepObs(c, t) == [NoObs EXCEPT !.kind = "step", !.op = c.op, !.touched = t]

\* The step that ends call c: it returns r (with value v) after emitting e;
\* pre names the case the call met, rd whether it read the store, hadp the
\* parser that was cached for the identifier when the step was taken.
doneObs(c, t, r, v, e, pre, rd) ==
    [kind |-> "done", op |-> c.op, lang |-> c.lang, touched |-> t,
     ret |-> r, val |-> v, ev |-> e, net |-> c.net, wrote |-> c.wrote,
     pre |-> pre, force |-> c.force, had |-> c.had,
     hadp |-> IF c.lang \in Ids THEN parser[c.lang].n ELSE 0,
     rd |-> rd, h |-> c.h, list |-> {}]

\* #initialize: if (this.isInitialized) return; ... await Parser.init(...)
initialize(b, isInitialized) == IF isInitialized THEN b ELSE b + 1

\* Mutant of waitForInit: after a failed initialization it starts a new
\* bootstrap.
waitForInit_retriesFailed(b) ==
    IF initState = "failed" THEN initialize(b, FALSE) ELSE b

\* Mutant of waitForInit: it calls #initialize again instead of returning
\* the stored promise, while the first bootstrap has not finished.
waitForInit_reinitializes(b) == initialize(b, FALSE)

\* waitForInit returns the stored #initPromise: the bootstraps started so
\* far stay what they were.
waitForInit(b) == b

\* A caller issues a call in slot p.
Issue(p) ==
    /\ ~InFlight(p)
    /\ IF sched.seq
       THEN /\ \A q \in Procs : ~InFlight(q)
            /\ sched.budget > 0
            /\ sched' = [sched EXCEPT !.budget = @ - 1]
       ELSE /\ sched.budget > 0
            /\ sched' = [sched EXCEPT !.budget = @ - 1]

Init ==
    /\ store = [id \in Ids |-> NoDir]
    /\ call = [p \in Procs |-> Idle]
    /\ initState = "engine"
    /\ bootstraps = initialize(0, FALSE)
    /\ initEvents = {}
    /\ languages = [id \in Ids |-> 0]
    /\ handles = << >>
    /\ parser = [id \in Ids |-> NoParser]
    /\ nparsers = 0
    /\ completed = [id \in Ids |-> NoMeta]
    /\ uninstalled = [id \in Ids |-> ""]
    /\ obs = NoObs
    /\ sched \in { [seq |-> TRUE, budget |-> MaxSeqCalls, wide |-> FALSE],
                    [seq |-> FALSE, budget |-> MaxCalls, wide |-> FALSE] }

(***************************************************************************)
(* TreeSitterAPI.#initialize, started once by the constructor.             *)
(***************************************************************************)
Parser_init_resolves ==
    /\ initState = "engine"
    /\ initState' = "config"
    /\ obs' = NoObs
    /\ UNCHANGED << store, call, bootstraps, initEvents, languages, handles,
                    parser, nparsers, completed, uninstalled >>
    /\ UNCHANGED sched

Parser_init_rejects ==
    /\ initState = "engine"
    /\ initState' = "failed"
    /\ initEvents' = initEvents \cup {"error"}
    /\ obs' = NoObs
    /\ UNCHANGED << store, call, bootstraps, languages, handles, parser,
                    nparsers, completed, uninstalled >>
    /\ UNCHANGED sched

\* #loadConfig swallows its errors, so the configuration load always
\* returns and initialization succeeds.

loadConfig_returns ==
    /\ initState = "config"
    /\ initState' = "ok"
    /\ initEvents' = initEvents \cup {"initialized"}
    /\ obs' = NoObs
    /\ UNCHANGED << store, call, bootstraps, languages, handles, parser,
                    nparsers, completed, uninstalled >>
    /\ UNCHANGED sched

(***************************************************************************)
(* installLanguage: the facade's call of Manager.installLanguage.          *)
(***************************************************************************)

Api_installLanguage(p, id) ==
    /\ Issue(p)
    /\ call' = [call EXCEPT ![p] = Begin("installLanguage", id, "i_exists")]
    /\ obs' = stepObs(call'[p], FALSE)
    /\ uninstalled' = [uninstalled EXCEPT ![id] = ""]
    /\ UNCHANGED << store, initState, bootstraps, initEvents, languages,
                    handles, parser, nparsers, completed >>

\* What the facade returns when Manager.installLanguage resolved with
\* success: it emits the event on success and returns true either way.
Api_installLanguage_returns(success) == "true"

\* if (await fs(langPath).exists()) return false;
installLanguage_exists(p) ==
    LET c == call[p] IN
    /\ c.pc = "i_exists"
    /\ IF store[c.lang].exists
       THEN /\ call' = [call EXCEPT ![p] = Idle]
            /\ obs' = doneObs(c, TRUE, Api_installLanguage_returns(FALSE), 0,
                              {}, "exists", TRUE)
       ELSE /\ call' = [call EXCEPT ![p].pc = "i_mkdir"]
            /\ obs' = stepObs(c, TRUE)
    /\ UNCHANGED << store, initState, bootstraps, initEvents, languages,
                    handles, parser, nparsers, completed, uninstalled >>
    /\ UNCHANGED sched

\* await fs(Api.TREE_SITTER_PATH).createDirectory(lang).  The host may
\* refuse; on a directory that is already there it may also answer success
\* and leave it as it is.

installLanguage_createDirectory(p) ==
    LET c == call[p] IN
    /\ c.pc = "i_mkdir"
    /\ \E ok \in BOOLEAN :
          /\ store' = IF ok /\ ~store[c.lang].exists
                      THEN [store EXCEPT ![c.lang] = EmptyDir] ELSE store
          /\ call' = [call EXCEPT ![p] =
                IF ok THEN [c EXCEPT !.pc = "d_fetch",
                                     !.wrote = @ \/ ~store[c.lang].exists]
                ELSE [c EXCEPT !.pc = "i_catch", !.err = "createDirectory"]]
    /\ obs' = stepObs(c, TRUE)
    /\ UNCHANGED << initState, bootstraps, initEvents, languages, handles,
                    parser, nparsers, completed, uninstalled >>
    /\ UNCHANGED sched

\* Mutant of _download_catch: the error is swallowed and the loop goes on
\* with what is left.
_download_catch_continues(c, e) ==
    IF c.queue # << >> THEN [c EXCEPT !.queue = Tail(@)] ELSE c

\* catch (error) { console.error(...); throw error } of _download: the
\* error leaves _download and reaches the catch block of installLanguage.

_download_catch(c, e) == [c EXCEPT !.pc = "i_catch", !.err = e]

\* _download: the manifest fetch.  It fails on a rejected request, a status
\* other than 200, a body that does not parse or one without files.

_download_fetch(p) ==
    LET c == call[p] IN
    /\ c.pc = "d_fetch"
    /\ \/ \E m \in registry(c.lang) :
            call' = [call EXCEPT ![p] =
               [c EXCEPT !.net = @ + 1, !.meta = m, !.item = 1, !.pc = "d_item"]]
       \/ call' = [call EXCEPT ![p] =
               _download_catch([c EXCEPT !.net = @ + 1], "fetch")]
    /\ obs' = stepObs(c, TRUE)
    /\ UNCHANGED << store, initState, bootstraps, initEvents, languages,
                    handles, parser, nparsers, completed, uninstalled >>
    /\ UNCHANGED sched

\* The head of one round of 'for (const item of items)': the directory of a
\* directory item is created, then the manifest is filtered.

_download_item(p) ==
    LET c == call[p]
        pattern == filesToDownload[c.item]
        next == [c EXCEPT !.queue = matchingFiles(c.meta, pattern),
                          !.pc = "d_files"]
    IN
    /\ c.pc = "d_item"
    /\ IF isDirectory(pattern)
       THEN \E ok \in BOOLEAN :
              IF ok /\ store[c.lang].exists
              THEN /\ store' = [store EXCEPT ![c.lang].qdir = TRUE]
                   /\ call' = [call EXCEPT ![p] = [next EXCEPT !.wrote = TRUE]]
              ELSE /\ store' = store
                   /\ call' = [call EXCEPT ![p] =
                         _download_catch(c, "createDirectory")]
       ELSE /\ call' = [call EXCEPT ![p] = next]
            /\ store' = store
    /\ obs' = stepObs(c, isDirectory(pattern))
    /\ UNCHANGED << initState, bootstraps, initEvents, languages, handles,
                    parser, nparsers, completed, uninstalled >>
    /\ UNCHANGED sched

\* const baseUrl = this.buildUrl(lang, '', globalMeta.version);
\* await this._downloadFile(fileUrl, dest): the read (which may fail, time
\* out or yield null) and the write under the file's base name.

_downloadFile(p) ==
    LET c == call[p]
        inQ == isDirectory(filesToDownload[c.item])
        baseUrl == buildUrl(c.lang, << >>, c.meta.version)
        fileUrl == [baseUrl EXCEPT !.path = Head(c.queue)]
        sent == [c EXCEPT !.net = @ + 1, !.urls = @ \cup {fileUrl.version}]
    IN
    /\ c.pc = "d_files"
    /\ c.queue # << >>
    /\ \E ok \in BOOLEAN :
          IF ok /\ folderExists(store[c.lang], inQ)
          THEN /\ store' = [store EXCEPT ![c.lang] =
                     createFile(@, inQ, basename(fileUrl.path))]
               /\ call' = [call EXCEPT ![p] =
                     [sent EXCEPT !.queue = Tail(@), !.wrote = TRUE]]
          ELSE /\ store' = store
               /\ call' = [call EXCEPT ![p] =
                     _download_catch(sent, "download")]
    /\ obs' = stepObs(c, TRUE)
    /\ UNCHANGED << initState, bootstraps, initEvents, languages, handles,
                    parser, nparsers, completed, uninstalled >>
    /\ UNCHANGED sched

\* The end of one round of the item loop; after the last item _download
\* returns true, installLanguage returns it and the facade emits
\* 'language-installed' and returns.

_download_next(p) ==
    LET c == call[p] IN
    /\ c.pc = "d_files"
    /\ c.queue = << >>
    /\ IF c.item < Len(filesToDownload)
       THEN /\ call' = [call EXCEPT ![p] = [c EXCEPT !.item = @ + 1, !.pc = "d_item"]]
            /\ obs' = stepObs(c, FALSE)
            /\ completed' = completed
       ELSE /\ call' = [call EXCEPT ![p] = Idle]
            /\ obs' = doneObs(c, FALSE, Api_installLanguage_returns(TRUE), 0,
                              {"language-installed"}, "installed", TRUE)
            /\ completed' = [completed EXCEPT ![c.lang] = c.meta]
    /\ UNCHANGED << store, initState, bootstraps, initEvents, languages,
                    handles, parser, nparsers, uninstalled >>
    /\ UNCHANGED sched

\* Mutants of rollback: a catch block that rethrows without cleaning up, and
\* one that empties the package directory but leaves it in place.
rollback_keeps(d) == d

rollback_empties(d) == IF d.exists THEN EmptyDir ELSE d

\* What the catch block of installLanguage makes of the package directory:
\* if (await fs(langPath).exists()) await fs(langPath).delete();

rollback(d) == IF d.exists THEN NoDir ELSE d

\* catch (error) { ...clean up...; throw error }.  The facade emits 'error'
\* and rethrows.
installLanguage_catch(p) ==
    LET c == call[p] IN
    /\ c.pc = "i_catch"
    /\ store' = [store EXCEPT ![c.lang] = rollback(@)]
    /\ call' = [call EXCEPT ![p] = Idle]
    /\ obs' = doneObs(c, TRUE, "rejected", 0, {"error"}, c.err, TRUE)
    /\ UNCHANGED << initState, bootstraps, initEvents, languages, handles,
                    parser, nparsers, completed, uninstalled >>
    /\ UNCHANGED sched

(***************************************************************************)
(* uninstallLanguage: the facade evicts the handle, then calls             *)
(* Manager.uninstallLanguage.                                              *)
(***************************************************************************)
\* Mutant of evict: an uninstall that leaves the handle cache alone.
evict_nothing(langs, id) == langs

\* this.#languages.delete(lang)

evict(langs, id) == [langs EXCEPT ![id] = 0]

Api_uninstallLanguage(p, id) ==
    /\ Issue(p)
    /\ call' = [call EXCEPT ![p] =
          [Begin("uninstallLanguage", id, "u_exists") EXCEPT !.had = languages[id]]]
    /\ languages' = evict(languages, id)
    /\ obs' = stepObs(call'[p], TRUE)
    /\ UNCHANGED << store, initState, bootstraps, initEvents, handles, parser,
                    nparsers, completed, uninstalled >>

\* if (!(await fs(langPath).exists())) return false;
uninstallLanguage_exists(p) ==
    LET c == call[p] IN
    /\ c.pc = "u_exists"
    /\ IF store[c.lang].exists
       THEN /\ call' = [call EXCEPT ![p].pc = "u_delete"]
            /\ obs' = stepObs(c, TRUE)
       ELSE /\ call' = [call EXCEPT ![p] = Idle]
            /\ obs' = doneObs(c, TRUE, "false", 0, {}, "absent", TRUE)
    /\ UNCHANGED << store, initState, bootstraps, initEvents, languages,
                    handles, parser, nparsers, completed, uninstalled >>
    /\ UNCHANGED sched

\* await fs(langPath).delete().  When it fails the manager's catch block
\* reads the undeclared name 'error' and throws a ReferenceError; the
\* facade catches it, emits 'error' and returns false.

uninstallLanguage_delete(p) ==
    LET c == call[p] IN
    /\ c.pc = "u_delete"
    /\ \E ok \in BOOLEAN :
          IF ok /\ store[c.lang].exists
          THEN /\ store' = [store EXCEPT ![c.lang] = NoDir]
               /\ obs' = doneObs([c EXCEPT !.wrote = TRUE], TRUE, "true", 0,
                                 {"language-uninstalled"}, "deleted", TRUE)
               /\ completed' = [completed EXCEPT ![c.lang] = NoMeta]
               /\ uninstalled' = [uninstalled EXCEPT ![c.lang] =
                     IF c.had # 0 THEN "evicted" ELSE "plain"]
          ELSE /\ store' = store
               /\ obs' = doneObs(c, TRUE, "false", 0, {"error"}, "deletefails", TRUE)
               /\ UNCHANGED << completed, uninstalled >>
    /\ call' = [call EXCEPT ![p] = Idle]
    /\ UNCHANGED << initState, bootstraps, initEvents, languages, handles,
                    parser, nparsers >>
    /\ UNCHANGED sched

(***************************************************************************)
(* isLanguageAvailable and getAvailableLanguages                           *)
(***************************************************************************)

Api_isLanguageAvailable(p, id) ==
    /\ Issue(p)
    /\ call' = [call EXCEPT ![p] = Begin("isLanguageAvailable", id, "a_exists")]
    /\ obs' = stepObs(call'[p], FALSE)
    /\ UNCHANGED << store, initState, bootstraps, initEvents, languages,
                    handles, parser, nparsers, completed, uninstalled >>

\* return await fs(langPath).exists();
isLanguageAvailable(d) == d.exists

isLanguageAvailable_exists(p) ==
    LET c == call[p] IN
    /\ c.pc = "a_exists"
    /\ call' = [call EXCEPT ![p] = Idle]
    /\ obs' = doneObs(c, TRUE,
                      IF isLanguageAvailable(store[c.lang]) THEN "true" ELSE "false",
                      0, {}, "", TRUE)
    /\ UNCHANGED << store, initState, bootstraps, initEvents, languages,
                    handles, parser, nparsers, completed, uninstalled >>
    /\ UNCHANGED sched

Api_getAvailableLanguages(p) ==
    /\ Issue(p)
    /\ call' = [call EXCEPT ![p] = Begin("getAvailableLanguages", "", "ls")]
    /\ obs' = stepObs(call'[p], FALSE)
    /\ UNCHANGED << store, initState, bootstraps, initEvents, languages,
                    handles, parser, nparsers, completed, uninstalled >>

\* dirs.filter(dir => dir.isDirectory).map(dir => dir.name), or [] when the
\* listing fails.
getAvailableLanguages_lsDir(p) ==
    LET c == call[p] IN
    /\ c.pc = "ls"
    /\ call' = [call EXCEPT ![p] = Idle]
    /\ \E ok \in BOOLEAN :
          obs' = [doneObs(c, TRUE, "list", 0, {}, "", TRUE) EXCEPT
                     !.list = IF ok THEN { id \in Ids : store[id].exists } ELSE {}]
    /\ UNCHANGED << store, initState, bootstraps, initEvents, languages,
                    handles, parser, nparsers, completed, uninstalled >>
    /\ UNCHANGED sched

(***************************************************************************)
(* waitForInit, getLanguage, createParser and parse: each awaits           *)
(* waitForInit() first, so its next step waits for #initPromise to settle. *)
(***************************************************************************)

Api_waitForInit(p) ==
    /\ Issue(p)
    /\ call' = [call EXCEPT ![p] = Begin("waitForInit", "", "init")]
    /\ obs' = stepObs(call'[p], FALSE)
    /\ UNCHANGED << store, initState, bootstraps, initEvents, languages,
                    handles, parser, nparsers, completed, uninstalled >>

\* #initialize returns true after 'initialized' and false after 'error'.
waitForInit_returns(p) ==
    LET c == call[p] IN
    /\ c.op = "waitForInit" /\ c.pc = "init"
    /\ settled
    /\ bootstraps' = waitForInit(bootstraps)
    /\ call' = [call EXCEPT ![p] = Idle]
    /\ obs' = doneObs(c, FALSE, IF initState = "ok" THEN "true" ELSE "false",
                      0, {}, "", FALSE)
    /\ UNCHANGED << store, initState, initEvents, languages, handles, parser,
                    nparsers, completed, uninstalled >>
    /\ UNCHANGED sched

Api_getLanguage(p, id, forceReload) ==
    /\ Issue(p)
    /\ call' = [call EXCEPT ![p] =
          [Begin("getLanguage", id, "init") EXCEPT
              !.force = forceReload, !.had = languages[id]]]
    /\ obs' = stepObs(call'[p], FALSE)
    /\ UNCHANGED << store, initState, bootstraps, initEvents, languages,
                    handles, parser, nparsers, completed, uninstalled >>

\* Mutant of cacheHit: the cache is never consulted.
cacheHit_never(langs, id, forceReload) == FALSE

\* if (!options.forceReload && this.#languages.has(lang))
cacheHit(langs, id, forceReload) == ~forceReload /\ langs[id] # 0

\* getLanguage after the gate: the cached handle, or on to
\* Manager.getLanguage.
getLanguage_cache(p) ==
    LET c == call[p] IN
    /\ c.op = "getLanguage" /\ c.pc = "init"
    /\ settled
    /\ bootstraps' = waitForInit(bootstraps)
    /\ IF cacheHit(languages, c.lang, c.force)
       THEN /\ call' = [call EXCEPT ![p] = Idle]
            /\ obs' = doneObs(c, TRUE, "handle", languages[c.lang], {}, "hit",
                              FALSE)
       ELSE /\ call' = [call EXCEPT ![p].pc = "g_read"]
            /\ obs' = stepObs(c, TRUE)
    /\ UNCHANGED << store, initState, initEvents, languages, handles, parser,
                    nparsers, completed, uninstalled >>
    /\ UNCHANGED sched

Api_createParser(p, id) ==
    /\ Issue(p)
    /\ call' = [call EXCEPT ![p] =
          [Begin("createParser", id, "init") EXCEPT !.had = languages[id]]]
    /\ obs' = stepObs(call'[p], FALSE)
    /\ UNCHANGED << store, initState, bootstraps, initEvents, languages,
                    handles, parser, nparsers, completed, uninstalled >>

\* parse(lang, code, { forceReload = false }): opts is "none" when the
\* third argument is omitted, and destructuring undefined throws before the
\* first await.
Api_parse(p, id, opts) ==
    /\ Issue(p)
    /\ LET c == [Begin("parse", id, "init") EXCEPT
                    !.force = (opts = "force"), !.had = languages[id]]
       IN  IF opts = "none"
           THEN /\ call' = call
                /\ obs' = doneObs(c, FALSE, "rejected", 0, {}, "noopts", FALSE)
           ELSE /\ call' = [call EXCEPT ![p] = c]
                /\ obs' = stepObs(c, FALSE)
    /\ UNCHANGED << store, initState, bootstraps, initEvents, languages,
                    handles, parser, nparsers, completed, uninstalled >>

\* Mutant of parserHit: forceReload is not looked at.
parserHit_ignoresForce(cache, lang, forceReload) == cache[lang] # NoParser

\* !forceReload && this.#parser[lang]
parserHit(cache, lang, forceReload) == ~forceReload /\ cache[lang] # NoParser

\* if (!forceReload && this.#parser[lang]) return this.#parser[lang].parse(code);
\* otherwise on to createParser.
parse_cache(p) ==
    LET c == call[p] IN
    /\ c.op = "parse" /\ c.pc = "init"
    /\ settled
    /\ bootstraps' = waitForInit(bootstraps)
    /\ IF parserHit(parser, c.lang, c.force)
       THEN /\ call' = [call EXCEPT ![p] = Idle]
            /\ obs' = doneObs(c, TRUE, "tree", parser[c.lang].n, {}, "cached",
                              FALSE)
       ELSE /\ call' = [call EXCEPT ![p].pc = "cp"]
            /\ obs' = stepObs(c, TRUE)
    /\ UNCHANGED << store, initState, initEvents, languages, handles, parser,
                    nparsers, completed, uninstalled >>
    /\ UNCHANGED sched

\* The events and the result of a createParser or parse call that throws:
\* parse's catch block emits 'error' and rethrows.

thrown(c, ev) == IF c.op = "parse" THEN ev \cup {"error"} ELSE ev

\* createParser with the handle in hand:
\* if (!language || !language.grammar) throw ...;
\* const parser = new Parser(); await parser.setLanguage(language.grammar).
\* parse then stores the parser in #parser and returns its tree.
createParser_needs(grammar) == grammar # 0

\* createParser after the gate (and parse on its way through createParser):
\* its getLanguage(lang) finds the cached handle, or goes on to
\* Manager.getLanguage.
createParser_getLanguage(p) ==
    LET c == call[p]
        h == languages[c.lang]
    IN
    /\ \/ c.op = "createParser" /\ c.pc = "init"
       \/ c.op = "parse" /\ c.pc = "cp"
    /\ settled
    /\ bootstraps' = waitForInit(bootstraps)
    /\ IF ~cacheHit(languages, c.lang, FALSE)
       THEN /\ call' = [call EXCEPT ![p].pc = "g_read"]
            /\ obs' = stepObs(c, TRUE)
            /\ UNCHANGED << parser, nparsers >>
       ELSE IF ~createParser_needs(handles[h].grammar)
       THEN /\ call' = [call EXCEPT ![p] = Idle]
            /\ obs' = doneObs(c, TRUE, "rejected", 0, thrown(c, {}),
                              "unloaded", FALSE)
            /\ UNCHANGED << parser, nparsers >>
       ELSE /\ nparsers < MaxParsers
            /\ nparsers' = nparsers + 1
            /\ call' = [call EXCEPT ![p] = Idle]
            /\ IF c.op = "parse"
               THEN /\ parser' = [parser EXCEPT ![c.lang] =
                          [n |-> nparsers + 1, h |-> h]]
                    /\ obs' = doneObs(c, TRUE, "tree", nparsers + 1, {},
                                      "created", FALSE)
               ELSE /\ parser' = parser
                    /\ obs' = doneObs(c, TRUE, "parser", nparsers + 1, {},
                                      "created", FALSE)
    /\ UNCHANGED << store, initState, initEvents, languages, handles,
                    completed, uninstalled >>
    /\ UNCHANGED sched

\* Mutant of Manager_getLanguage_catch: a package that cannot be read is
\* removed.
Manager_getLanguage_catch_deletes(d) == NoDir

\* catch (error) { console.error(...); throw new Error(`Failed to load
\* language ...`) } of Manager.getLanguage: what it leaves of directory d.

Manager_getLanguage_catch(d) == d

\* Manager.getLanguage and what its caller does with the answer.  The reads
\* of the package are one step; the handle it constructs is cached by
\* getLanguage in the same task.  A handle fresh from the store has no
\* grammar, so createParser throws on it.
Manager_getLanguage(p) ==
    LET c == call[p] IN
    /\ c.pc = "g_read"
    /\ call' = [call EXCEPT ![p] = Idle]
    /\ \E fault \in BOOLEAN :
         LET out == Manager_getLanguage_outcome(store[c.lang], fault) IN
         IF out = "ok"
         THEN /\ Len(handles) < MaxHandles
              /\ \E keys \in listings(wasmFiles(store[c.lang])) :
                    handles' = Append(handles, Language(c.lang, keys))
              /\ languages' = [languages EXCEPT ![c.lang] = Len(handles) + 1]
              /\ store' = store
              /\ obs' = IF c.op = "getLanguage"
                        THEN doneObs(c, TRUE, "handle", Len(handles) + 1, {},
                                     "ok", TRUE)
                        ELSE doneObs(c, TRUE, "rejected", 0, thrown(c, {}),
                                     "unloaded", TRUE)
         ELSE /\ UNCHANGED << handles, languages >>
              /\ store' = IF out = "absent" THEN store
                          ELSE [store EXCEPT ![c.lang] =
                                   Manager_getLanguage_catch(@)]
              /\ LET ev == IF out = "absent" THEN {} ELSE {"error"} IN
                 obs' = IF c.op = "getLanguage"
                        THEN doneObs(c, TRUE, "null", 0, ev, out, TRUE)
                        ELSE doneObs(c, TRUE, "rejected", 0, thrown(c, ev),
                                     out, TRUE)
    /\ UNCHANGED << initState, bootstraps, initEvents, parser,
                    nparsers, completed, uninstalled >>
    /\ UNCHANGED sched

\* api.clear(): the class defines no method of that name and neither does
\* the EventEmitter it extends, so the call throws a TypeError and nothing
\* is dropped.
Api_clear(p) ==
    /\ Issue(p)
    /\ call' = call
    /\ obs' = doneObs(Begin("clear", "", ""), FALSE, "rejected", 0, {},
                      "nomethod", FALSE)
    /\ UNCHANGED << store, initState, bootstraps, initEvents, languages,
                    handles, parser, nparsers, completed, uninstalled >>

(***************************************************************************)
(* Language.loadGrammar and unloadGrammar, called on any handle a caller   *)
(* holds.                                                                  *)
(***************************************************************************)
\* The grammars compiled so far for the Language objects hs.
RECURSIVE compiled(_)
compiled(hs) ==
    IF hs = << >> THEN 0 ELSE Head(hs).loads + compiled(Tail(hs))

\* Mutant of isLoaded: the handle never counts as loaded.
isLoaded_never(grammar) == FALSE

\* get isLoaded() { return this.#grammar !== null }
isLoaded(grammar) == grammar # 0

\* !this.#wasmUrls.  The module slot is never empty: it holds the URL of the
\* main module or, when the constructor found none, the map it was given,
\* and an object, the empty one too, is not falsy.
noWasm(hd) == FALSE

\* if (this.isLoaded) return this.#grammar;
\* if (!this.#wasmUrls) throw new Error(`No WASM file available ...`);
\* The call remembers in had the grammar the handle held when it was made.
Language_loadGrammar(p, h) ==
    /\ Issue(p)
    /\ h \in 1..Len(handles)
    /\ isLoaded(handles[h].grammar) \/ compiled(handles) < MaxLoads
    /\ LET c == [Begin("loadGrammar", handles[h].name, "l_load") EXCEPT
                    !.h = h, !.had = handles[h].grammar]
       IN  IF isLoaded(handles[h].grammar)
           THEN /\ call' = call
                /\ obs' = doneObs(c, FALSE, "grammar", handles[h].grammar, {},
                                  "loaded", FALSE)
           ELSE IF noWasm(handles[h])
           THEN /\ call' = call
                /\ obs' = doneObs(c, FALSE, "rejected", 0, {}, "nowasm", FALSE)
           ELSE /\ call' = [call EXCEPT ![p] = c]
                /\ obs' = stepObs(c, FALSE)
    /\ UNCHANGED << store, initState, bootstraps, initEvents, languages,
                    handles, parser, nparsers, completed, uninstalled >>

\* Mutant of loadGrammar_catch: a failed load also empties the module slot.
loadGrammar_catch_clearsSlot(hd) ==
    [hd EXCEPT !.rejected = TRUE, !.resolved = FALSE, !.wasmUrl = NoFile]

\* catch (error) { console.error(...); throw new Error(`Failed to load
\* grammar ...`) }: the handle is left as it was.

loadGrammar_catch(hd) == [hd EXCEPT !.rejected = TRUE]

\* this.#grammar = await TSLanguage.load(await acode.toInternalUrl(...)).
\* The slot is handed over as it is; the loader may reject, and it has
\* nothing to load when the slot still holds the whole map.  Every grammar
\* it compiles is a new object.
loadGrammar_load(p) ==
    LET c == call[p] IN
    /\ c.pc = "l_load"
    /\ compiled(handles) < MaxLoads
    /\ call' = [call EXCEPT ![p] = Idle]
    /\ \E ok \in BOOLEAN :
          IF ok /\ handles[c.h].resolved
          THEN /\ handles' = [handles EXCEPT ![c.h].grammar = handles[c.h].loads + 1,
                                             ![c.h].loads = @ + 1]
               /\ obs' = doneObs(c, FALSE, "grammar", handles[c.h].loads + 1,
                                 {}, "load", FALSE)
          ELSE /\ handles' = [handles EXCEPT ![c.h] = loadGrammar_catch(@)]
               /\ obs' = doneObs(c, FALSE, "rejected", 0, {}, "loadfails", FALSE)
    /\ UNCHANGED << store, initState, bootstraps, initEvents, languages,
                    parser, nparsers, completed, uninstalled >>
    /\ UNCHANGED sched

\* Mutant of unloadGrammar: the module slot is cleared with the grammar.
unloadGrammar_dropsModule(hd) ==
    [hd EXCEPT !.grammar = 0, !.resolved = FALSE, !.wasmUrl = NoFile]

\* this.#grammar = null
unloadGrammar(hd) == [hd EXCEPT !.grammar = 0]

\* unloadGrammar() { this.#grammar = null; return true; }
Language_unloadGrammar(p, h) ==
    /\ Issue(p)
    /\ h \in 1..Len(handles)
    /\ handles' = [handles EXCEPT ![h] = unloadGrammar(@)]
    /\ call' = call
    /\ obs' = doneObs([Begin("unloadGrammar", handles[h].name, "") EXCEPT
                          !.h = h, !.had = handles[h].grammar],
                      FALSE, "true", 0, {}, "", FALSE)
    /\ UNCHANGED << store, initState, bootstraps, initEvents, languages,
                    parser, nparsers, completed, uninstalled >>

(***************************************************************************)
(* The claims.                                                             *)
(***************************************************************************)
InstallInFlight(id) ==
    \E p \in Procs : call[p].op = "installLanguage" /\ call[p].lang = id

Done(o) == obs.kind = "done" /\ obs.op = o

C3_InstallExistingReturnsFalse ==
    (Done("installLanguage") /\ obs.pre = "exists") =>
       /\ obs.ret = "false"
       /\ obs.ev = {}
       /\ obs.net = 0
       /\ ~obs.wrote

\* C4: isLanguageAvailable(id) is true exactly when the directory of id
\* exists and contains tree-sitter.json.
C4_AvailableIffConfig ==
    Done("isLanguageAvailable") =>
       (obs.ret = "true" <=>
           store[obs.lang].exists /\ ConfigName \in store[obs.lang].top)

\* C5: once uninstallLanguage(id) has deleted the package, and until an
\* install, the handle cache holds no entry for id and every getLanguage(id)
\* returns null.
C5_UninstallThenGetLanguage ==
    /\ \A id \in Ids : uninstalled[id] # "" => languages[id] = 0
    /\ (Done("getLanguage") /\ uninstalled[obs.lang] # "") => obs.ret = "null"

\* getLanguage returned null for an identifier whose uninstall had evicted
\* a cached handle.
C5_Witness ==
    /\ Done("getLanguage") /\ obs.ret = "null"
    /\ uninstalled[obs.lang] = "evicted"

\* C6: the bootstrap is started once, and every waitForInit returns only
\* after it settled, with its outcome.
C6_SingleFlightInit ==
    /\ bootstraps = 1
    /\ Done("waitForInit") =>
          /\ settled
          /\ obs.ret = "true" <=> initState = "ok"
          /\ obs.ret = "true" <=> "initialized" \in initEvents
          /\ obs.ret = "false" <=> "error" \in initEvents

\* One waitForInit returned while another one is still waiting.
C6_Witness ==
    /\ Done("waitForInit")
    /\ \E p \in Procs : call[p].op = "waitForInit"

\* C7: no facade operation touches the store, the network or a cache before
\* initialization has settled.
C7_GatedBehindInit == obs.touched => settled

\* C8: getLanguage without forceReload returns the handle that was cached
\* when it was called, without reading the store; a handle it returns is the
\* cached one afterwards; with forceReload a handle it returns was
\* constructed from the store by this call and replaces the cached one.
C8_GetLanguageMemoizes ==
    Done("getLanguage") =>
       /\ (~obs.force /\ obs.had # 0) =>
             obs.ret = "handle" /\ obs.val = obs.had /\ ~obs.rd
       /\ obs.ret = "handle" => languages[obs.lang] = obs.val
       /\ (obs.force /\ obs.ret = "handle") =>
             obs.rd /\ obs.val # obs.had /\ obs.val = Len(handles)

\* A forced reload replaced a cached handle by a new one.
C8_Witness ==
    /\ Done("getLanguage") /\ obs.force /\ obs.had # 0
    /\ obs.ret = "handle" /\ languages[obs.lang] # obs.had

\* C9: when getLanguage goes to the store and the directory is absent, has
\* no tree-sitter.json or cannot be read, it returns null, emits 'error'
\* unless the directory was absent, and leaves the handle cache as it was;
\* a call that finds no cached handle always goes to the store.
C9_FailedConstructionNotCached ==
    Done("getLanguage") =>
       /\ (obs.had = 0 \/ obs.force) => obs.rd
       /\ ( /\ obs.rd
            /\ \/ ~store[obs.lang].exists
               \/ ConfigName \notin store[obs.lang].top
               \/ obs.pre = "readerror" ) =>
             /\ obs.ret = "null"
             /\ languages[obs.lang] = obs.had
             /\ obs.ev = IF store[obs.lang].exists THEN {"error"} ELSE {}

\* getLanguage found a package directory without tree-sitter.json.
C9_Witness ==
    /\ Done("getLanguage") /\ obs.pre = "noconfig"
    /\ obs.ret = "null" /\ obs.ev = {"error"}
    /\ store[obs.lang].exists

\* C10: createParser on an installed identifier whose handle has a main
\* module but no loaded grammar loads the grammar and returns a parser.
C10_CreateParserLoadsGrammar ==
    ( /\ Done("createParser") /\ obs.pre = "unloaded"
      /\ store[obs.lang].exists
      /\ languages[obs.lang] # 0
      /\ handles[languages[obs.lang]].resolved ) =>
       obs.ret = "parser"

C12_ParseWithoutOptions ==
    (Done("parse") /\ obs.pre = "noopts" /\ obs.hadp # 0) =>
       obs.ret = "tree" /\ obs.val = obs.hadp

\* C13: installLanguage emits 'language-installed' exactly when it installed
\* the package, uninstallLanguage emits 'language-uninstalled' exactly when
\* it deleted the package, and each returns true exactly when it emitted its
\* event.
C13_EventsOnSuccessOnly ==
    /\ Done("installLanguage") =>
          /\ "language-installed" \in obs.ev <=> obs.pre = "installed"
          /\ obs.ret = "true" <=> "language-installed" \in obs.ev
    /\ Done("uninstallLanguage") =>
          /\ "language-uninstalled" \in obs.ev <=> obs.pre = "deleted"
          /\ obs.ret = "true" <=> "language-uninstalled" \in obs.ev

\* C14: after clear() the handle cache and the parser cache hold nothing.
C14_ClearDropsCaches ==
    Done("clear") =>
       \A id \in Ids : languages[id] = 0 /\ parser[id] = NoParser

\* C15: uninstallLanguage returns false and changes nothing when the
\* directory is absent, deletes the directory and returns true otherwise,
\* and rejects when the deletion fails.
C15_UninstallOutcomes ==
    Done("uninstallLanguage") =>
       /\ obs.pre = "absent" =>
             obs.ret = "false" /\ ~obs.wrote /\ obs.ev = {}
       /\ obs.pre = "deleted" =>
             obs.ret = "true" /\ store[obs.lang] = NoDir
       /\ obs.pre = "deletefails" => obs.ret = "rejected"

\* The module files of the package a handle was constructed from, those
\* among them whose name minus 'tree-sitter-' and '.wasm' is the handle's
\* name, and those that are not in the handle's module slot.
ModulesOf(hd) == wasmFiles(store[hd.name])

MainsOf(hd) == { f \in ModulesOf(hd) : f.base = hd.name }

OthersOf(hd) == ModulesOf(hd) \ {hd.wasmUrl}

\* The shape C16 describes: the slot holds a module named after the handle,
\* the handle is no extension, and its extensions hold one entry for each
\* other module, under that module's derived name, each an extension
\* holding that module only.
ExtensionShape(hd) ==
    /\ hd.resolved /\ hd.wasmUrl \in MainsOf(hd)
    /\ ~hd.isExtension
    /\ DOMAIN hd.extensions = { f.base : f \in OthersOf(hd) }
    /\ Cardinality(DOMAIN hd.extensions) = Cardinality(OthersOf(hd))
    /\ \A f \in OthersOf(hd) :
          hd.extensions[f.base] =
             [name |-> f.base, wasmUrl |-> f, isExtension |-> TRUE]

\* C16 as stated: every handle constructed from a package that has a module
\* named after it has that shape.
C16_ExtensionResolution ==
    \A h \in 1..Len(handles) :
       MainsOf(handles[h]) # {} => ExtensionShape(handles[h])

\* C16 amended: it has that shape when, in addition, no two of the modules
\* outside its slot have the same derived name.
C16_ExtensionResolutionDistinct ==
    \A h \in 1..Len(handles) :
       ( /\ MainsOf(handles[h]) # {}
         /\ \A f, g \in OthersOf(handles[h]) : f.base = g.base => f = g ) =>
          ExtensionShape(handles[h])

\* A handle with a main module and two extensions of distinct names.
C16_Witness ==
    \E h \in 1..Len(handles) :
       /\ handles[h].resolved
       /\ Cardinality(OthersOf(handles[h])) = 2
       /\ Cardinality(DOMAIN handles[h].extensions) = 2

\* C17: a loadGrammar on a handle that holds a grammar returns that very
\* grammar without invoking the engine loader, so the loader has compiled
\* nothing for the handle since.
C17_LoadGrammarIdempotent ==
    (Done("loadGrammar") /\ obs.had # 0) =>
       /\ obs.ret = "grammar" /\ obs.val = obs.had
       /\ obs.pre = "loaded"
       /\ handles[obs.h].grammar = obs.had
       /\ handles[obs.h].loads = obs.had

\* loadGrammar was called on a handle that was already loaded.
C17_Witness ==
    /\ Done("loadGrammar") /\ obs.had # 0
    /\ obs.ret = "grammar" /\ obs.val = obs.had

\* C18, what a call leaves: unloadGrammar returns true and leaves no
\* grammar; a loadGrammar on a handle without grammar goes to the engine
\* loader when the handle has a module, and when that succeeds the handle
\* holds the new grammar.
UnloadThenLoad ==
    /\ Done("unloadGrammar") =>
          obs.ret = "true" /\ ~isLoaded(handles[obs.h].grammar)
    /\ (Done("loadGrammar") /\ obs.had = 0) =>
          /\ obs.pre \in {"load", "loadfails"}
          /\ obs.ret = "grammar" =>
                /\ obs.pre = "load"
                /\ obs.val # 0 /\ handles[obs.h].grammar = obs.val
                /\ handles[obs.h].loads = obs.val
                /\ handles[obs.h].resolved

\* C18, the module slot: no step changes the module, the name or the
\* extensions of a handle.
SlotKept ==
    \A h \in 1..Len(handles) :
       /\ handles'[h].wasmUrl = handles[h].wasmUrl
       /\ handles'[h].resolved = handles[h].resolved
       /\ handles'[h].name = handles[h].name
       /\ handles'[h].extensions = handles[h].extensions

\* C18: unloadGrammar always returns true and clears the grammar, and a
\* later loadGrammar loads again from the module the handle was constructed
\* with.
C18_UnloadThenReload == []UnloadThenLoad /\ [][SlotKept]_vars

\* A loadGrammar compiled the second grammar of a handle, which was
\* unloaded since its first.
C18_Witness ==
    /\ Done("loadGrammar") /\ obs.pre = "load"
    /\ obs.had = 0 /\ obs.val = 2
    /\ handles[obs.h].grammar = 2

\* The paths of manifest meta with the prefix taken off, and whether a
\* file name starts with a dot.
PathsOf(meta) ==
    { SubSeq(meta.files[i], Len(meta.prefix) + 1, Len(meta.files[i])) :
         i \in 1..Len(meta.files) }

DotName(f) == ~f.pfx /\ f.base = ""

\* C19: right after an installLanguage that installed the package, the
\* package directory holds tree-sitter.json and the .wasm files that the
\* manifest lists at top level (none whose name starts with a dot), the
\* queries directory holds the files the manifest lists under queries/, each
\* under its base name; there is nothing else, and isLanguageAvailable is
\* true.
C19_InstalledFileSet ==
    (Done("installLanguage") /\ obs.pre = "installed") =>
       LET d == store[obs.lang]
           paths == PathsOf(completed[obs.lang])
       IN  /\ d.exists /\ d.qdir
           /\ d.top = { path[1] : path \in
                 { x \in paths :
                     /\ Len(x) = 1
                     /\ \/ x[1] = ConfigName
                        \/ x[1].ext = "wasm" /\ ~DotName(x[1]) } }
           /\ d.q = { path[Len(path)] : path \in
                 { x \in paths : Len(x) >= 2 /\ x[1] = QueriesName } }
           /\ isLanguageAvailable(d)

\* An install wrote a module and a query file and left out a file of the
\* manifest that no wanted item matches.
C19_Witness ==
    /\ Done("installLanguage") /\ obs.pre = "installed"
    /\ MainWasm(obs.lang) \in store[obs.lang].top
    /\ store[obs.lang].q # {}
    /\ Cardinality(PathsOf(completed[obs.lang])) >
          Cardinality(store[obs.lang].top) + Cardinality(store[obs.lang].q)

\* C20: for the manifest an install fetched, each wanted item keeps the
\* files the pattern contract names: 'tree-sitter.json' the path that is
\* exactly that name; '*.wasm' only paths of one segment that end in .wasm,
\* and every such path whose name does not start with a dot; 'queries/'
\* the paths of two or more segments whose first is queries, and no other.
C20_FilterAgreesWithContract ==
    \A p \in Procs :
       call[p].meta # NoMeta =>
          \A i \in 1..Len(call[p].meta.files) :
             LET file == call[p].meta.files[i]
                 path == SubSeq(file, Len(call[p].meta.prefix) + 1, Len(file))
                 kept(k) == \E j \in 1..Len(matchingFiles(call[p].meta,
                                                   filesToDownload[k])) :
                       matchingFiles(call[p].meta, filesToDownload[k])[j] = file
             IN  /\ kept(1) <=> path = << ConfigName >>
                 /\ kept(2) => Len(path) = 1 /\ path[1].ext = "wasm"
                 /\ (Len(path) = 1 /\ path[1].ext = "wasm" /\ ~DotName(path[1]))
                       => kept(2)
                 /\ kept(3) <=> (Len(path) >= 2 /\ path[1] = QueriesName)

\* An install is filtering a manifest that lists a module below the top
\* level, a file deep under queries/ and a top-level file whose name
\* starts with queries.
C20_Witness ==
    \E p \in Procs :
       /\ call[p].pc = "d_files"
       /\ << SrcName, ParserWasm >> \in PathsOf(call[p].meta)
       /\ << QueriesName, SrcName, Highlights >> \in PathsOf(call[p].meta)
       /\ << Seg(FALSE, "queries", "scm") >> \in PathsOf(call[p].meta)

\* A call is past its existence check and at work on the package directory.
PastExistenceCheck(p) ==
    call[p].pc \in {"i_mkdir", "d_fetch", "d_item", "d_files", "i_catch",
                    "u_delete"}

\* C21: no two install or uninstall calls on one identifier are past their
\* existence checks at the same time.
C21_InstallUninstallExclusive ==
    \A p, q \in Procs :
       (p # q /\ PastExistenceCheck(p) /\ PastExistenceCheck(q)) =>
          call[p].lang # call[q].lang

\* C22, the outcome: no event before initialization settles and exactly one
\* after; isInitialized holds exactly when 'initialized' was emitted and
\* initialization failed exactly when 'error' was; one bootstrap was
\* started; waitForInit after a failure yields false.
InitOutcome ==
    /\ ~settled => initEvents = {}
    /\ settled => Cardinality(initEvents) = 1
    /\ initState = "ok" <=> "initialized" \in initEvents
    /\ initState = "failed" <=> "error" \in initEvents
    /\ bootstraps = 1
    /\ (Done("waitForInit") /\ initState = "failed") => obs.ret = "false"

\* C22, never leaving it: once settled, the outcome and its event stay.
InitOutcomeKept ==
    settled => initState' = initState /\ initEvents' = initEvents

\* C22: initialization reaches one outcome, announces it with one event,
\* never leaves it, and a failure is not retried by later calls.
C22_InitOutcomeFinal == []InitOutcome /\ [][InitOutcomeKept]_vars

\* A getLanguage call went through its gate after initialization failed.
C22_Witness ==
    /\ initState = "failed"
    /\ Done("getLanguage") /\ obs.rd

\* q is what is left of sequence s after some of its head was taken.
IsSuffix(q, s) == \E k \in 0..Len(s) : q = SubSeq(s, k + 1, Len(s))

\* What one installation holds of the registry: no manifest and no file
\* request before the manifest fetch; afterwards the files still to request
\* for the current item are a tail of that item's filter over the manifest
\* the call holds, and every file URL sent names that manifest's version.
ManifestSnapshot ==
    \A p \in Procs :
       LET c == call[p] IN
       c.op = "installLanguage" =>
          /\ c.pc \in {"i_exists", "i_mkdir", "d_fetch"} =>
                c.meta = NoMeta /\ c.urls = {}
          /\ c.pc = "d_files" =>
                IsSuffix(c.queue, matchingFiles(c.meta, filesToDownload[c.item]))
          /\ c.urls \subseteq {c.meta.version}
          /\ latest \notin c.urls

\* Once fetched, the manifest of a call is neither fetched again nor replaced.
ManifestKept ==
    \A p \in Procs :
       (call[p].pc \in {"d_item", "d_files", "i_catch"} /\ call'[p].pc # "idle") =>
          /\ call'[p].meta = call[p].meta
          /\ call'[p].pc \notin {"i_exists", "i_mkdir", "d_fetch"}

\* C23: within one installation the manifest is fetched exactly once, every
\* wanted item is filtered against that one snapshot, and every file URL is
\* built from the snapshot's version field, never from 'latest'.
C23_OneManifestSnapshot == []ManifestSnapshot /\ [][ManifestKept]_vars

\* Two overlapping installations hold manifests of different versions and
\* each has requested files of its own version.
C23_Witness ==
    \E p, q \in Procs :
       /\ call[p].pc = "d_files" /\ call[q].pc = "d_files"
       /\ call[p].lang = call[q].lang
       /\ call[p].meta.version # call[q].meta.version
       /\ call[p].urls = {call[p].meta.version}
       /\ call[q].urls = {call[q].meta.version}
       /\ call[p].item > 1

\* One step of an installation in _download: the item index moves on by one
\* and only when no file of the current item is left; a request is answered
\* before the next is sent, and a request that fails sends the call to the
\* catch block; from there the call sends nothing more and ends.
InOrderUntilFailure ==
    \A p \in Procs :
       LET c == call[p]
           d == call'[p]
       IN
       (c.op = "installLanguage" /\ d # c) =>
          /\ d.pc # "idle" =>
                /\ d.net \in {c.net, c.net + 1}
                /\ d.item \in {c.item, c.item + 1}
                /\ d.item = c.item + 1 =>
                      c.pc = "d_fetch" \/ (c.pc = "d_files" /\ c.queue = << >>)
          /\ (c.pc = "d_fetch" /\ d.net = c.net + 1) =>
                \/ d.pc = "d_item" /\ d.item = 1 /\ d.meta # NoMeta
                \/ d.pc = "i_catch" /\ d.meta = NoMeta
          /\ (c.pc = "d_files" /\ d.net = c.net + 1) =>
                \/ /\ d.pc = "d_files" /\ d.queue = Tail(c.queue)
                   /\ folderExists(store'[c.lang],
                                   isDirectory(filesToDownload[c.item]))
                \/ d.pc = "i_catch" /\ store' = store
          /\ c.pc = "i_catch" => d = Idle

\* An installation that ended on a failed manifest fetch sent that one
\* request only.
FetchFailureSendsNothing ==
    (Done("installLanguage") /\ obs.pre = "fetch") =>
        obs.ret = "rejected" /\ obs.net = 1

\* C24: the wanted items are processed in their declared order and the
\* downloads run one at a time; the first failed manifest fetch or file
\* download aborts the installation: no further download is started and the
\* failed request is not retried.
C24_SequentialFirstFailureAborts ==
    []FetchFailureSendsNothing /\ [][InOrderUntilFailure]_vars

\* An installation was rejected on a failed download after at least two
\* files had arrived.
C24_Witness ==
    /\ Done("installLanguage") /\ obs.ret = "rejected"
    /\ obs.pre = "download" /\ obs.net >= 4

\* C25: a loadGrammar on a handle whose module set has no main module fails
\* at the check of the module slot, before anything is handed to the engine
\* loader, and the handle stays unloaded.
C25_UnresolvedFailsBeforeLoader ==
    (Done("loadGrammar") /\ ~handles[obs.h].resolved) =>
       /\ obs.ret = "rejected" /\ obs.pre = "nowasm"
       /\ ~isLoaded(handles[obs.h].grammar)

\* A loadGrammar that the engine loader rejected: the call is rejected and
\* the handle holds no grammar; and a loadGrammar on an unloaded handle goes
\* to the loader, whatever failed on the handle before.
LoadRejected ==
    /\ (Done("loadGrammar") /\ obs.pre = "loadfails") =>
          /\ obs.ret = "rejected"
          /\ ~isLoaded(handles[obs.h].grammar)
          /\ handles[obs.h].rejected
    /\ (Done("loadGrammar") /\ obs.had = 0 /\ handles[obs.h].rejected) =>
          obs.pre \in {"load", "loadfails"}

\* The step on which the loader rejects leaves both caches of the facade
\* and, but for the record of the failure, every handle as they were.
LoadRejectionKeeps ==
    (obs'.kind = "done" /\ obs'.op = "loadGrammar" /\ obs'.pre = "loadfails") =>
       /\ languages' = languages
       /\ parser' = parser
       /\ handles' = [handles EXCEPT ![obs'.h].rejected = TRUE]

\* C26: when the engine loader rejects during loadGrammar the call rejects,
\* the handle's grammar stays null, the handle stays in the handle cache of
\* the facade, and a later loadGrammar on the handle invokes the loader
\* again.
C26_FailedLoadCanBeRetried == []LoadRejected /\ [][LoadRejectionKeeps]_vars

\* A loadGrammar succeeded on a handle of the handle cache on which an
\* earlier load had been rejected.
C26_Witness ==
    /\ Done("loadGrammar") /\ obs.pre = "load" /\ obs.ret = "grammar"
    /\ handles[obs.h].rejected
    /\ isLoaded(handles[obs.h].grammar)
    /\ languages[obs.lang] = obs.h

\* The operations that only read the store.
ReadOnlyOps ==
    {"getLanguage", "createParser", "parse", "loadGrammar", "unloadGrammar",
     "isLanguageAvailable", "getAvailableLanguages"}

\* A step that changes anything in the store is a step of an installLanguage
\* or an uninstallLanguage call.
StoreFrame ==
    store' # store =>
       /\ obs'.op \in {"installLanguage", "uninstallLanguage"}
       /\ obs'.op \notin ReadOnlyOps

\* C27: getLanguage, createParser, parse, loadGrammar, unloadGrammar,
\* isLanguageAvailable and getAvailableLanguages never create, modify or
\* delete anything in the store, whether they succeed or fail; only
\* installLanguage and uninstallLanguage change the package directories.
C27_ReadersLeaveStore == [][StoreFrame]_vars

\* A getLanguage, createParser or parse call failed on a package that is in
\* the store without its tree-sitter.json, and the package is still there.
C27_Witness ==
    /\ obs.kind = "done" /\ obs.op \in ReadOnlyOps
    /\ obs.pre \in {"noconfig", "readerror"}
    /\ store[obs.lang].exists /\ store[obs.lang].top # {}

\* A call that may still cache a handle for id is in flight.
GetLanguageInFlight(id) ==
    \E p \in Procs :
       /\ call[p].op \in {"getLanguage", "createParser", "parse"}
       /\ call[p].lang = id

\* C28: once uninstallLanguage(id) has resolved true, with no installation
\* of id since and every getLanguage(id) finished, the handle cache has no
\* entry for id.
C28_NoHandleAfterUninstall ==
    \A id \in Ids :
       (/\ uninstalled[id] # ""
        /\ ~InstallInFlight(id)
        /\ ~GetLanguageInFlight(id)) => languages[id] = 0

\* C29: after uninstallLanguage(id) has resolved true, and with no
\* installation of id since, a parse of id without forceReload does not
\* answer from the parser cache.
C29_NoStaleParserAfterUninstall ==
    (Done("parse") /\ ~obs.force /\ uninstalled[obs.lang] # "") =>
       obs.pre # "cached" /\ obs.ret # "tree"

\* Directory d holds everything that directory e holds.
Holds(d, e) ==
    /\ d.exists
    /\ e.top \subseteq d.top
    /\ e.qdir => d.qdir
    /\ e.q \subseteq d.q

\* C30: when installations of one identifier overlap and one of them has
\* resolved true, then, once none is in flight (and the package was not
\* uninstalled), the package directory exists with every file of the
\* installation that resolved true: no installation deletes what another
\* one created or completed.  Read where no uninstallLanguage is called.
C30_InstallKeepsOthersDirectory ==
    \A id \in Ids :
       (completed[id] # NoMeta /\ ~InstallInFlight(id)) =>
          Holds(store[id], installed(completed[id]))

\* On the step after an unloadGrammar of a handle has returned, the handle
\* still holds no grammar: a loadGrammar that begins on that step has yet to
\* reach the engine loader, so a grammar that appears on it comes from a
\* loadGrammar that was in flight when the grammar was unloaded.
NullAfterUnload ==
    Done("unloadGrammar") => ~isLoaded(handles'[obs.h].grammar)

\* C31: once unloadGrammar has returned, the grammar of the handle stays
\* null until a loadGrammar that began after the unload succeeds; a
\* loadGrammar in flight when unloadGrammar ran does not repopulate it.
C31_InFlightLoadCannotRepopulate == [][NullAfterUnload]_vars

(***************************************************************************)
(* The specifications.                                                     *)
(***************************************************************************)
Start(p) ==
    \/ \E id \in Ids : Api_installLanguage(p, id)
    \/ \E id \in Ids : Api_uninstallLanguage(p, id)
    \/ \E id \in Ids : Api_isLanguageAvailable(p, id)
    \/ Api_getAvailableLanguages(p)
    \/ Api_waitForInit(p)
    \/ \E id \in Ids, forceReload \in BOOLEAN : Api_getLanguage(p, id, forceReload)
    \/ \E id \in Ids : Api_createParser(p, id)
    \/ \E id \in Ids, opts \in {"none", "default", "force"} : Api_parse(p, id, opts)
    \/ Api_clear(p)
    \/ \E h \in 1..MaxHandles : Language_loadGrammar(p, h)
    \/ \E h \in 1..MaxHandles : Language_unloadGrammar(p, h)

Step(p) ==
    \/ installLanguage_exists(p)
    \/ installLanguage_createDirectory(p)
    \/ _download_fetch(p)
    \/ _download_item(p)
    \/ _downloadFile(p)
    \/ _download_next(p)
    \/ installLanguage_catch(p)
    \/ uninstallLanguage_exists(p)
    \/ uninstallLanguage_delete(p)
    \/ isLanguageAvailable_exists(p)
    \/ getAvailableLanguages_lsDir(p)
    \/ waitForInit_returns(p)
    \/ getLanguage_cache(p)
    \/ parse_cache(p)
    \/ createParser_getLanguage(p)
    \/ Manager_getLanguage(p)
    \/ loadGrammar_load(p)

Initialize ==
    \/ Parser_init_resolves
    \/ Parser_init_rejects
    \/ loadConfig_returns

Next ==
    \/ Initialize
    \/ \E p \in Procs : Start(p)
    \/ \E p \in Procs : Step(p)

\* Calls overlap freely; at most MaxCalls are issued.
InitOverlap == Init /\ ~sched.seq

Spec == InitOverlap /\ [][Next]_vars

\* One call at a time, at most MaxSeqCalls of them.
InitSeq == Init /\ sched.seq

SpecSeq == InitSeq /\ [][Next]_vars

\* Handle construction on its own: the facade is initialized, the package
\* of each identifier was installed with a configuration document and any
\* of the module files below, and the only calls are getLanguage calls.
ModuleFiles ==
    { Seg(pfx, base, "wasm") : pfx \in BOOLEAN, base \in {"json", "dialect"} }
       \cup { Seg(TRUE, "other", "wasm") }

ModuleDirs ==
    { [EmptyDir EXCEPT !.top = {ConfigName} \cup F, !.qdir = TRUE] :
         F \in SUBSET ModuleFiles }

InitLanguage ==
    /\ store \in [Ids -> ModuleDirs]
    /\ call = [p \in Procs |-> Idle]
    /\ initState = "ok"
    /\ bootstraps = initialize(0, FALSE)
    /\ initEvents = {"initialized"}
    /\ languages = [id \in Ids |-> 0]
    /\ handles = << >>
    /\ parser = [id \in Ids |-> NoParser]
    /\ nparsers = 0
    /\ completed = [id \in Ids |-> NoMeta]
    /\ uninstalled = [id \in Ids |-> ""]
    /\ obs = NoObs
    /\ sched = [seq |-> TRUE, budget |-> MaxSeqCalls, wide |-> FALSE]

NextLanguage ==
    \E p \in Procs :
       \/ \E id \in Ids, forceReload \in BOOLEAN : Api_getLanguage(p, id, forceReload)
       \/ getLanguage_cache(p)
       \/ Manager_getLanguage(p)

SpecLanguage == InitLanguage /\ [][NextLanguage]_vars

\* The installer on its own, against the wider registry: installLanguage
\* and isLanguageAvailable calls, one at a time.
InitInstall ==
    /\ store = [id \in Ids |-> NoDir]
    /\ call = [p \in Procs |-> Idle]
    /\ initState = "ok"
    /\ bootstraps = initialize(0, FALSE)
    /\ initEvents = {"initialized"}
    /\ languages = [id \in Ids |-> 0]
    /\ handles = << >>
    /\ parser = [id \in Ids |-> NoParser]
    /\ nparsers = 0
    /\ completed = [id \in Ids |-> NoMeta]
    /\ uninstalled = [id \in Ids |-> ""]
    /\ obs = NoObs
    /\ sched = [seq |-> TRUE, budget |-> MaxSeqCalls, wide |-> TRUE]

NextInstall ==
    \E p \in Procs :
       \/ \E id \in Ids : Api_installLanguage(p, id)
       \/ installLanguage_exists(p)
       \/ installLanguage_createDirectory(p)
       \/ _download_fetch(p)
       \/ _download_item(p)
       \/ _downloadFile(p)
       \/ _download_next(p)
       \/ installLanguage_catch(p)
       \/ \E id \in Ids : Api_isLanguageAvailable(p, id)
       \/ isLanguageAvailable_exists(p)

SpecInstall == InitInstall /\ [][NextInstall]_vars

\* The installer on its own with calls that overlap: at most MaxCalls
\* installLanguage and isLanguageAvailable calls, and no other call.
InitInstallOverlap ==
    /\ store = [id \in Ids |-> NoDir]
    /\ call = [p \in Procs |-> Idle]
    /\ initState = "ok"
    /\ bootstraps = initialize(0, FALSE)
    /\ initEvents = {"initialized"}
    /\ languages = [id \in Ids |-> 0]
    /\ handles = << >>
    /\ parser = [id \in Ids |-> NoParser]
    /\ nparsers = 0
    /\ completed = [id \in Ids |-> NoMeta]
    /\ uninstalled = [id \in Ids |-> ""]
    /\ obs = NoObs
    /\ sched = [seq |-> FALSE, budget |-> MaxCalls, wide |-> FALSE]

SpecInstallOverlap == InitInstallOverlap /\ [][NextInstall]_vars

\* The grammar of a handle on its own: the package of each identifier is
\* installed as for SpecLanguage, a getLanguage call has constructed and
\* cached its handle, and the caller who holds the handle issues at most
\* MaxCalls loadGrammar and unloadGrammar calls that may overlap.
InitGrammar ==
    /\ store \in [Ids -> ModuleDirs]
    /\ call = [p \in Procs |-> Idle]
    /\ initState = "ok"
    /\ bootstraps = initialize(0, FALSE)
    /\ initEvents = {"initialized"}
    /\ languages = [id \in Ids |-> 1]
    /\ \E keys \in listings(wasmFiles(store["json"])) :
          handles = << Language("json", keys) >>
    /\ parser = [id \in Ids |-> NoParser]
    /\ nparsers = 0
    /\ completed = [id \in Ids |-> NoMeta]
    /\ uninstalled = [id \in Ids |-> ""]
    /\ obs = NoObs
    /\ sched = [seq |-> FALSE, budget |-> MaxCalls, wide |-> FALSE]

NextGrammar ==
    \E p \in Procs :
       \/ \E h \in 1..MaxHandles : Language_loadGrammar(p, h)
       \/ loadGrammar_load(p)
       \/ \E h \in 1..MaxHandles : Language_unloadGrammar(p, h)

SpecGrammar == InitGrammar /\ [][NextGrammar]_vars

====
